---- MODULE Spec2Model ----
(***************************************************************************)
(* The Flippin room game-state machine, latest revision of server.js       *)
(* (the single shared room 'default', with gameOver and checkGameOver).    *)
(*                                                                         *)
(* One step of the model is one run-to-completion callback of the Node.js  *)
(* event loop: the connection handler, one socket event handler, one       *)
(* setInterval tick or one setTimeout flip-back.                           *)
(*                                                                         *)
(* A room object that is no longer rooms[ROOM_ID] (replaced by a rematch   *)
(* or deleted at teardown) stays alive only through the closures of its    *)
(* interval and of its flip-back timeouts.  Of such a detached object the  *)
(* model keeps what those closures read: its timer and the tasks pending   *)
(* on it.                                                                  *)
(*                                                                         *)
(* Each callback is an operator from the state before it (and its input)   *)
(* to a result: the registry and the detached objects after it, the        *)
(* signals it emits in order, the entries it unshifts onto the log of the  *)
(* registered room (newest first), and whether it threw.  room.log is      *)
(* written and broadcast but never read by the rules, so the log itself    *)
(* is not part of the state.                                               *)
(***************************************************************************)
EXTENDS Integers, Sequences, FiniteSets, Bags, TLC

\* ---------------------------------------------------------------- bounds
\* ANIMALS.length (10 in the source), scaled down; the deck has 2 cards per pair.
NumPairs == 2
\* timer.remaining of a new game (180 in the source), scaled down.
FullTime == 2
\* The base allowance of questionsLeft (5 in the source), scaled down.
QuestionAllowance == 1
\* Number of connections (socket ids) the model lets arrive.
NumSockets == 3
\* Number of detached room objects kept alive by closures at one time.
MaxStale == 1
\* Largest array length on which shuffle is examined by itself.
MaxDeck == 5

\* ---------------------------------------------------------------- constants
ROOM_ID == 0

DeckSize == 2 * NumPairs
\* checkGameOver compares totalMatches with the literal 10 = ANIMALS.length.
AllPairs == NumPairs
\* The model stops counting a player's questions one past the allowance.
MaxAsked == QuestionAllowance + 1
Sockets == 1 .. NumSockets
CardIdx == 0 .. (DeckSize - 1)
\* Card indices a client may send: also just outside the deck on both sides.
FlipInputs == (0 - 1) .. DeckSize

TIE_NAME == 0

VARIABLES
    rooms,            \* the registry: a function with domain {} or {ROOM_ID}
    stale,            \* bag of detached room objects still held by closures
    connected,        \* socket ids whose handlers are registered
    nextSocket,       \* id the next connection gets (socket.id is unique)
    gameOverSignals,  \* 'gameOver' signals emitted since the registered game was created
    crashed,          \* a callback threw: the process has ended
    trial             \* a call of shuffle examined by itself: input, draws, result

vars == <<rooms, stale, connected, nextSocket, gameOverSignals, crashed, trial>>

\* ---------------------------------------------------------------- helpers
Emit(ev, to, val) == [ev |-> ev, to |-> to, val |-> val]

HasRoom == ROOM_ID \in DOMAIN rooms
NoRooms == [id \in {} |-> 0]
Registry(r) == [id \in {ROOM_ID} |-> r]

\* players.findIndex(p => p.id === socket.id), 0-based, -1 when absent
FindIndex(players, s) ==
    IF \E i \in 1 .. Len(players) : players[i].id = s
    THEN (CHOOSE i \in 1 .. Len(players) :
              /\ players[i].id = s
              /\ \A k \in 1 .. (i - 1) : players[k].id # s) - 1
    ELSE 0 - 1

\* players.splice(idx, 1), idx 0-based
Splice(players, idx) ==
    [i \in 1 .. (Len(players) - 1) |-> IF i <= idx THEN players[i] ELSE players[i + 1]]

\* (room.players[i]?.matches || 0)
MatchesOrZero(players, i) == IF i + 1 <= Len(players) THEN players[i + 1].matches ELSE 0

\* ---------------------------------------------------------------- deck
RECURSIVE ShuffleFromCopy(_, _, _)
\* the loop with the swap written as a one-way copy
ShuffleFromCopy(arr, js, i) ==
    IF i <= 0 THEN arr
    ELSE ShuffleFromCopy([arr EXCEPT ![i] = arr[js[i]]], js, i - 1)

RECURSIVE ShuffleFrom(_, _, _)
\* the loop of shuffle from index i down to 1; js[i] is the j drawn for i
ShuffleFrom(arr, js, i) ==
    IF i <= 0 THEN arr
    ELSE ShuffleFrom([arr EXCEPT ![i] = arr[js[i]], ![js[i]] = arr[i]], js, i - 1)

\* shuffle(arr): the loop starts at arr.length - 1
shuffle(arr, js) == ShuffleFrom(arr, js, Cardinality(DOMAIN arr) - 1)

\* draws that take j below the length of the array at every step
DrawsNaive(n) == [1 .. (n - 1) -> 0 .. (n - 1)]

\* every sequence of draws of a shuffle of n elements: j = js[i] is drawn from
\* 0 .. i for each i from n - 1 down to 1
Draws(n) == { js \in [1 .. (n - 1) -> 0 .. (n - 1)] : \A i \in 1 .. (n - 1) : js[i] <= i }

\* an array of n distinct elements: each element is its position
Positions(n) == [k \in 0 .. (n - 1) |-> k]

\* one call of shuffle by itself: the array, the draws, the returned array
NoTrial == [arr |-> << >>, js |-> << >>, out |-> << >>, done |-> FALSE]
NewTrial(n, js) == [arr |-> Positions(n), js |-> js, out |-> << >>, done |-> FALSE]

\* The draws of Math.random the game model explores: j = i at every step (no
\* card moves) and j = 0 at every step.
ShuffleChoices ==
    { [i \in 1 .. (DeckSize - 1) |-> i], [i \in 1 .. (DeckSize - 1) |-> 0] }

NewCard(pairId) == [pairId |-> pairId, revealed |-> FALSE, matched |-> FALSE]

\* cards before the shuffle: two pushes per animal i
UnshuffledCards == [k \in CardIdx |-> NewCard(k \div 2)]

NewTimer == [remaining |-> FullTime, running |-> FALSE, intervalId |-> "null", live |-> 0]

createNewGameState(js) ==
    [ cards         |-> shuffle(UnshuffledCards, js),
      players       |-> << >>,
      flipped       |-> << >>,
      currentPlayer |-> 0,
      timer         |-> NewTimer,
      gameOver      |-> FALSE,
      pending       |-> << >> ]

NewPlayer(s) ==
    [id |-> s, name |-> s, matches |-> 0, asked |-> 0, extra |-> 0, prevMatches |-> 0]

\* socket.handshake.query.name: absent (or empty), or a string chosen by the
\* client; the one chosen string of the model is the text of the tie
NO_QUERY_NAME == 0 - 2
QueryNames == {NO_QUERY_NAME, TIE_NAME}

\* playerName: the query name, else the generated `Player #n`, which the model
\* writes as the socket id
playerName(s, q) == IF q = NO_QUERY_NAME THEN s ELSE q

questionsLeft(player) == QuestionAllowance + player.extra - player.asked

BroadcastState(hasRoom) == IF hasRoom THEN << Emit("state", ROOM_ID, 0) >> ELSE << >>

\* ---------------------------------------------------------------- timer
\* clearInterval(t.intervalId): cancels the task the handle names, if still live
ClearInterval(t) ==
    IF t.intervalId = "live"
    THEN [t EXCEPT !.intervalId = "cleared", !.live = @ - 1]
    ELSE t

\* startTimer on a timer record: a new interval task closes over the room object
StartTimerRec(t) ==
    IF t.running THEN t
    ELSE [t EXCEPT !.running = TRUE, !.intervalId = "live", !.live = @ + 1]

startTimer(r) == [r EXCEPT !.timer = StartTimerRec(@)]

PauseTimerRec(t) ==
    IF ~t.running THEN t
    ELSE [ClearInterval(t) EXCEPT !.running = FALSE]

\* pauseTimer that cancels the task but leaves running set
pauseTimerKeepsRunning(r) == [r EXCEPT !.timer = ClearInterval(@)]

pauseTimer(r) == [r EXCEPT !.timer = PauseTimerRec(@)]
pauseTimerEmits(r) == IF r.timer.running THEN << Emit("timerPaused", ROOM_ID, 0) >> ELSE << >>

resumeTimer(r) == IF r.timer.running THEN r ELSE startTimer(r)

\* ---------------------------------------------------------------- game over
NoThrow(r, es) == [room |-> r, emits |-> es, threw |-> FALSE]
Throw(r, es) == [room |-> r, emits |-> es, threw |-> TRUE]

\* winner.name for two present players: the strictly higher matches, else the tie
WinnerName(players) ==
    IF players[1].matches = players[2].matches THEN TIE_NAME
    ELSE IF players[1].matches > players[2].matches THEN players[1].name
    ELSE players[2].name

\* checkGameOver(roomId) on the registered room r.  Reading .matches of a
\* missing players[0] or players[1] throws a TypeError after gameOver is set.
checkGameOver(r) ==
    IF r.gameOver THEN NoThrow(r, << >>)
    ELSE IF MatchesOrZero(r.players, 0) + MatchesOrZero(r.players, 1) = AllPairs
    THEN LET r1 == [pauseTimer(r) EXCEPT !.gameOver = TRUE]
         IN  IF Len(r.players) < 2
             THEN Throw(r1, pauseTimerEmits(r))
             ELSE NoThrow(r1, pauseTimerEmits(r)
                              \o << Emit("gameOver", ROOM_ID, WinnerName(r.players)) >>)
    ELSE IF r.timer.remaining <= 0
    THEN LET r1 == [r EXCEPT !.gameOver = TRUE]
         IN  IF Len(r.players) < 2
             THEN Throw(r1, << >>)
             ELSE NoThrow(r1, << Emit("gameOver", ROOM_ID, WinnerName(r.players)) >>)
    ELSE NoThrow(r, << >>)

\* number of 'gameOver' signals in a sequence of emitted signals
RECURSIVE CountGameOver(_)
CountGameOver(es) ==
    IF es = << >> THEN 0
    ELSE (IF Head(es).ev = "gameOver" THEN 1 ELSE 0) + CountGameOver(Tail(es))

\* ---------------------------------------------------------------- detached objects
HasClosures(o) == o.timer.live > 0 \/ o.pending > 0
Detached(r) == [timer |-> r.timer, pending |-> Len(r.pending)]
\* the bag of detached objects after object o left the registry
Keep(bag, o) == IF HasClosures(o) THEN bag (+) SetToBag({o}) ELSE bag
\* the model keeps at most MaxStale detached objects
FitsStale(res) == BagCardinality(res.stale) <= MaxStale

\* ---------------------------------------------------------------- results
\* what one callback does: registry and detached objects after it, signals
\* emitted, log entries unshifted, whether it threw, whether it made a new game
Res(rm, st, es, lg) ==
    [rooms |-> rm, stale |-> st, emits |-> es, logged |-> lg, threw |-> FALSE, fresh |-> FALSE]
\* a callback that returns at a guard
NoOp == Res(rooms, stale, << >>, << >>)

\* ---------------------------------------------------------------- initial state
Init ==
    /\ rooms = NoRooms
    /\ stale = EmptyBag
    /\ connected = {}
    /\ nextSocket = 1
    /\ gameOverSignals = 0
    /\ crashed = FALSE
    /\ trial = NoTrial

\* the state after a callback with result res
Apply(res) ==
    /\ rooms' = res.rooms
    /\ stale' = res.stale
    /\ crashed' = res.threw
    /\ gameOverSignals' = (IF res.fresh THEN 0 ELSE gameOverSignals) + CountGameOver(res.emits)
    /\ UNCHANGED trial

\* ---------------------------------------------------------------- connection
\* the same test as the revision without game over made it
JoinStartsTimerAnyway(r) == Len(r.players) = 2 /\ ~r.timer.running

\* the test before startTimer at the end of the connection handler
JoinStartsTimer(r) == Len(r.players) = 2 /\ ~r.timer.running /\ ~r.gameOver

\* a join that only tests the membership
JoinsAnyRoom(r, s) == FindIndex(r.players, s) = 0 - 1

\* the test before the push of a new player
Joins(r, s) == Len(r.players) < 2 /\ FindIndex(r.players, s) = 0 - 1

\* io.on('connection') for a socket with id s and query name q; js are the
\* draws of a shuffle
connectionNamed(s, js, q) ==
    LET r0 == IF HasRoom THEN rooms[ROOM_ID] ELSE createNewGameState(js)
        joins == Joins(r0, s)
        r1 == IF joins
              THEN [r0 EXCEPT !.players =
                        Append(@, [NewPlayer(s) EXCEPT !.name = playerName(s, q)])]
              ELSE r0
        r2 == IF JoinStartsTimer(r1) THEN startTimer(r1) ELSE r1
    IN  [Res(Registry(r2), stale,
             << Emit("roomAssigned", s, ROOM_ID) >> \o BroadcastState(TRUE),
             IF joins THEN << "info" >> ELSE << >>)
         EXCEPT !.fresh = ~HasRoom]

\* a connection without a query name
connection(s, js) == connectionNamed(s, js, NO_QUERY_NAME)

\* the socket gets the next unused id
Connection(js) ==
    /\ ~crashed
    /\ nextSocket <= NumSockets
    /\ Apply(connection(nextSocket, js))
    /\ connected' = connected \cup {nextSocket}
    /\ nextSocket' = nextSocket + 1

\* a connection whose handshake may carry a name
ConnectionNamed(js, q) ==
    /\ ~crashed
    /\ nextSocket <= NumSockets
    /\ Apply(connectionNamed(nextSocket, js, q))
    /\ connected' = connected \cup {nextSocket}
    /\ nextSocket' = nextSocket + 1

\* ---------------------------------------------------------------- timer tick
\* the setInterval callback of startTimer on the timer of the object it closes over
TickTimer(t) ==
    LET t1 == [t EXCEPT !.remaining = @ - 1]
    IN  IF t1.remaining <= 0
        THEN [timer |-> [ClearInterval(t1) EXCEPT !.running = FALSE], up |-> TRUE]
        ELSE [timer |-> t1, up |-> FALSE]

TickEmits(tk) ==
    << Emit("timer", ROOM_ID, tk.timer.remaining) >>
    \o (IF tk.up THEN << Emit("timeUp", ROOM_ID, 0) >> ELSE << >>)

\* a tick of the interval of the registered room object
tickRoom ==
    LET r == rooms[ROOM_ID]
        tk == TickTimer(r.timer)
        r1 == [r EXCEPT !.timer = tk.timer]
        cg == IF tk.up THEN checkGameOver(r1) ELSE NoThrow(r1, << >>)
    IN  [Res(Registry(cg.room), stale,
             TickEmits(tk) \o (IF tk.up THEN BroadcastState(TRUE) ELSE << >>) \o cg.emits,
             IF tk.up THEN << "info" >> ELSE << >>)
         EXCEPT !.threw = cg.threw]

TickRoom ==
    /\ ~crashed
    /\ HasRoom
    /\ rooms[ROOM_ID].timer.live > 0
    /\ Apply(tickRoom)
    /\ UNCHANGED <<connected, nextSocket>>

\* a tick of the interval of a detached room object o: it decrements the timer
\* of o, but emits to, and checks the game of, rooms[ROOM_ID]
tickStale(o) ==
    LET tk == TickTimer(o.timer)
        o1 == [o EXCEPT !.timer = tk.timer]
        cg == IF tk.up /\ HasRoom THEN checkGameOver(rooms[ROOM_ID]) ELSE NoThrow(0, << >>)
    IN  [Res(IF tk.up /\ HasRoom THEN Registry(cg.room) ELSE rooms,
             Keep(stale (-) SetToBag({o}), o1),
             TickEmits(tk) \o (IF tk.up THEN BroadcastState(HasRoom) ELSE << >>) \o cg.emits,
             << >>)
         EXCEPT !.threw = cg.threw]

TickStale(o) ==
    /\ ~crashed
    /\ o.timer.live > 0
    /\ Apply(tickStale(o))
    /\ UNCHANGED <<connected, nextSocket>>

\* ---------------------------------------------------------------- rematch
\* the players of the new game: same ids and names, counters zeroed
\* a copy of the players that keeps the questions already asked
RematchPlayersKeepAsked(players) ==
    [i \in 1 .. Len(players) |->
        [players[i] EXCEPT !.matches = 0, !.extra = 0, !.prevMatches = 0]]

RematchPlayers(players) ==
    [i \in 1 .. Len(players) |->
        [players[i] EXCEPT !.matches = 0, !.asked = 0, !.extra = 0, !.prevMatches = 0]]

\* socket.on('rematch'): a new room object replaces the registered one; the
\* old object is not paused and keeps the tasks scheduled on it
rematch(s, js) ==
    IF ~HasRoom THEN NoOp
    ELSE IF Len(rooms[ROOM_ID].players) # 2 THEN NoOp
    ELSE LET old == rooms[ROOM_ID]
             newGame == [createNewGameState(js) EXCEPT !.players = RematchPlayers(old.players)]
         IN  [Res(Registry(startTimer(newGame)), Keep(stale, Detached(old)),
                  BroadcastState(TRUE) \o << Emit("gameReset", ROOM_ID, 0) >>, << >>)
              EXCEPT !.fresh = TRUE]

Rematch(s, js) ==
    /\ ~crashed
    /\ s \in connected
    /\ FitsStale(rematch(s, js))
    /\ Apply(rematch(s, js))
    /\ UNCHANGED <<connected, nextSocket>>

\* ---------------------------------------------------------------- flip
\* the guards without the gameOver test
FlipGuardNoGameOver(r, s, idx) ==
    /\ FindIndex(r.players, s) # 0 - 1
    /\ r.currentPlayer = FindIndex(r.players, s)
    /\ idx \in CardIdx
    /\ ~r.cards[idx].revealed
    /\ ~r.cards[idx].matched
    /\ Len(r.flipped) < 2

\* the guards of the earliest revision: no limit on flipped, no gameOver
FlipGuardNoLimit(r, s, idx) ==
    /\ FindIndex(r.players, s) # 0 - 1
    /\ r.currentPlayer = FindIndex(r.players, s)
    /\ idx \in CardIdx
    /\ ~r.cards[idx].revealed
    /\ ~r.cards[idx].matched

\* the guards without the tests of the card's flags
FlipGuardNoCardCheck(r, s, idx) ==
    /\ ~r.gameOver
    /\ FindIndex(r.players, s) # 0 - 1
    /\ r.currentPlayer = FindIndex(r.players, s)
    /\ idx \in CardIdx
    /\ Len(r.flipped) < 2

\* the guards of socket.on('flip'): TRUE when the flip goes on to reveal a card
FlipGuard(r, s, idx) ==
    /\ ~r.gameOver
    /\ FindIndex(r.players, s) # 0 - 1
    /\ r.currentPlayer = FindIndex(r.players, s)
    /\ idx \in CardIdx
    /\ ~r.cards[idx].revealed
    /\ ~r.cards[idx].matched
    /\ Len(r.flipped) < 2

\* the match branch without the reset of flipped
FlipMatchKeepsFlipped(r1, playerIndex) ==
    LET idxA == r1.flipped[1]
        idxB == r1.flipped[2]
        r2 == [r1 EXCEPT !.cards[idxA].matched = TRUE,
                         !.cards[idxB].matched = TRUE,
                         !.players[playerIndex + 1].matches = @ + 1]
        player == r2.players[playerIndex + 1]
        cg == checkGameOver(pauseTimer(r2))
    IN  [Res(Registry(cg.room), stale,
             BroadcastState(TRUE) \o pauseTimerEmits(r2) \o BroadcastState(TRUE)
                 \o << Emit("askQuestion", player.id, questionsLeft(player)) >> \o cg.emits,
             << "info" >>)
         EXCEPT !.threw = cg.threw]

\* the match branch: r1 is the room after the second card was revealed
FlipMatch(r1, playerIndex) ==
    LET idxA == r1.flipped[1]
        idxB == r1.flipped[2]
        r2 == [r1 EXCEPT !.cards[idxA].matched = TRUE,
                         !.cards[idxB].matched = TRUE,
                         !.players[playerIndex + 1].matches = @ + 1,
                         !.flipped = << >>]
        player == r2.players[playerIndex + 1]
        cg == checkGameOver(pauseTimer(r2))
    IN  [Res(Registry(cg.room), stale,
             BroadcastState(TRUE) \o pauseTimerEmits(r2) \o BroadcastState(TRUE)
                 \o << Emit("askQuestion", player.id, questionsLeft(player)) >> \o cg.emits,
             << "info" >>)
         EXCEPT !.threw = cg.threw]

\* the no-match branch: the flip-back is scheduled; its closure holds the two
\* cards, the playerIndex and the socket of the handler that scheduled it
FlipNoMatch(r1, playerIndex, s) ==
    Res(Registry([r1 EXCEPT !.pending = Append(@, [a |-> r1.flipped[1], b |-> r1.flipped[2],
                                                   playerIndex |-> playerIndex,
                                                   socket |-> s])]),
        stale, BroadcastState(TRUE), << >>)

\* socket.on('flip')
flip(s, idx) ==
    IF ~HasRoom THEN NoOp
    ELSE IF ~FlipGuard(rooms[ROOM_ID], s, idx) THEN NoOp
    ELSE LET r == rooms[ROOM_ID]
             r1 == [r EXCEPT !.cards[idx].revealed = TRUE, !.flipped = Append(@, idx)]
         IN  IF Len(r1.flipped) # 2
             THEN Res(Registry(r1), stale, BroadcastState(TRUE), << >>)
             ELSE IF r1.cards[r1.flipped[1]].pairId = r1.cards[r1.flipped[2]].pairId
             THEN FlipMatch(r1, FindIndex(r.players, s))
             ELSE FlipNoMatch(r1, FindIndex(r.players, s), s)

Flip(s, idx) ==
    /\ ~crashed
    /\ s \in connected
    /\ Apply(flip(s, idx))
    /\ UNCHANGED <<connected, nextSocket>>

\* the flip-back without the turn switch
FlipBackOnKeepTurn(r) ==
    LET cb == Head(r.pending)
    IN  [r EXCEPT !.cards[cb.a].revealed = FALSE,
                  !.cards[cb.b].revealed = FALSE,
                  !.flipped = << >>,
                  !.pending = Tail(@)]

\* the room after the setTimeout callback of a mismatch ran on it
FlipBackOn(r) ==
    LET cb == Head(r.pending)
    IN  [r EXCEPT !.cards[cb.a].revealed = FALSE,
                  !.cards[cb.b].revealed = FALSE,
                  !.flipped = << >>,
                  !.currentPlayer = 1 - @,
                  !.pending = Tail(@)]

\* the callback closed over the registered room object
flipBackRoom ==
    Res(Registry(FlipBackOn(rooms[ROOM_ID])), stale, BroadcastState(TRUE), << "info" >>)

FlipBackRoom ==
    /\ ~crashed
    /\ HasRoom
    /\ rooms[ROOM_ID].pending # << >>
    /\ Apply(flipBackRoom)
    /\ UNCHANGED <<connected, nextSocket>>

\* the callback as if it looked the room up by its id when it fires
flipBackStaleByLookup(o) ==
    Res(IF HasRoom
        THEN Registry([rooms[ROOM_ID] EXCEPT !.flipped = << >>, !.currentPlayer = 1 - @])
        ELSE rooms,
        Keep(stale (-) SetToBag({o}), [o EXCEPT !.pending = @ - 1]),
        BroadcastState(HasRoom), << "info" >>)

\* the callback closed over a detached room object o: it writes to o only,
\* then broadcasts the state of rooms[ROOM_ID]
flipBackStale(o) ==
    Res(rooms, Keep(stale (-) SetToBag({o}), [o EXCEPT !.pending = @ - 1]),
        BroadcastState(HasRoom), << >>)

FlipBackStale(o) ==
    /\ ~crashed
    /\ o.pending > 0
    /\ Apply(flipBackStale(o))
    /\ UNCHANGED <<connected, nextSocket>>

\* ---------------------------------------------------------------- questions
UNKNOWN_NAME == 0 - 1

\* room.players.find(p => p.id !== socket.id)
Opponents(players, s) == { i \in 1 .. Len(players) : players[i].id # s }
OpponentEmits(players, s, ev, val) ==
    IF Opponents(players, s) = {} THEN << >>
    ELSE LET i == CHOOSE i \in Opponents(players, s) : \A k \in Opponents(players, s) : i <= k
         IN  << Emit(ev, players[i].id, val) >>

\* the guards of socket.on('askQuestion'): TRUE when the question is taken
AskGuard(r, s) == FindIndex(r.players, s) # 0 - 1

\* socket.on('askQuestion')
askQuestion(s) ==
    IF ~HasRoom THEN NoOp
    ELSE IF ~AskGuard(rooms[ROOM_ID], s) THEN NoOp
    ELSE LET r == rooms[ROOM_ID]
             i == FindIndex(r.players, s) + 1
         IN  Res(Registry([r EXCEPT !.players[i].asked = @ + 1]), stale,
                 OpponentEmits(r.players, s, "questionForAnswer", r.players[i].name)
                     \o BroadcastState(TRUE),
                 << "q" >>)

\* the model stops counting questions at MaxAsked
AskQuestion(s) ==
    /\ ~crashed
    /\ s \in connected
    /\ \A i \in 1 .. (IF HasRoom THEN Len(rooms[ROOM_ID].players) ELSE 0) :
           rooms[ROOM_ID].players[i].id = s => rooms[ROOM_ID].players[i].asked < MaxAsked
    /\ Apply(askQuestion(s))
    /\ UNCHANGED <<connected, nextSocket>>

AnswererName(players, s) ==
    IF FindIndex(players, s) = 0 - 1 THEN UNKNOWN_NAME
    ELSE players[FindIndex(players, s) + 1].name

\* the timer part as in the revision before gameOver existed
AnswerResumeAlways(r) == resumeTimer(r)

\* the timer part of socket.on('answerQuestion')
AnswerResume(r) == IF ~r.gameOver THEN resumeTimer(r) ELSE r

\* socket.on('answerQuestion')
answerQuestion(s) ==
    IF ~HasRoom THEN NoOp
    ELSE LET r == rooms[ROOM_ID]
         IN  Res(Registry(AnswerResume(r)), stale,
                 << Emit("questionAnswered", ROOM_ID, AnswererName(r.players, s)) >>
                     \o BroadcastState(TRUE),
                 << "a" >>)

AnswerQuestion(s) ==
    /\ ~crashed
    /\ s \in connected
    /\ Apply(answerQuestion(s))
    /\ UNCHANGED <<connected, nextSocket>>

\* ---------------------------------------------------------------- disconnect
\* the teardown of an empty room, on the room object about to be deleted
Teardown(r) == [r EXCEPT !.timer = IF @.intervalId # "null" THEN ClearInterval(@) ELSE @]

\* the revision without game over: a short room stays as it is
EndIfShortNever(r) == r

\* a room left with fewer than two players is over
EndIfShort(r) == IF Len(r.players) < 2 THEN [r EXCEPT !.gameOver = TRUE] ELSE r

\* socket.on('disconnect')
disconnect(s) ==
    IF ~HasRoom THEN NoOp
    ELSE IF FindIndex(rooms[ROOM_ID].players, s) = 0 - 1 THEN NoOp
    ELSE LET r == rooms[ROOM_ID]
             r1 == [r EXCEPT !.players = Splice(@, FindIndex(r.players, s))]
             r2 == pauseTimer(r1)
             r3 == EndIfShort(r2)
         IN  IF Len(r3.players) = 0
             THEN Res(NoRooms, Keep(stale, Detached(Teardown(r3))),
                      pauseTimerEmits(r1) \o BroadcastState(TRUE), << "info" >>)
             ELSE Res(Registry(r3), stale,
                      pauseTimerEmits(r1) \o BroadcastState(TRUE), << "info" >>)

Disconnect(s) ==
    /\ ~crashed
    /\ s \in connected
    /\ FitsStale(disconnect(s))
    /\ Apply(disconnect(s))
    /\ connected' = connected \ {s}
    /\ UNCHANGED nextSocket

\* ---------------------------------------------------------------- specification
Next ==
    \/ \E js \in ShuffleChoices : Connection(js)
    \/ \E s \in Sockets, js \in ShuffleChoices : Rematch(s, js)
    \/ \E s \in Sockets, idx \in FlipInputs : Flip(s, idx)
    \/ FlipBackRoom
    \/ \E o \in BagToSet(stale) : FlipBackStale(o)
    \/ \E s \in Sockets : AskQuestion(s)
    \/ \E s \in Sockets : AnswerQuestion(s)
    \/ \E s \in Sockets : Disconnect(s)
    \/ TickRoom
    \/ \E o \in BagToSet(stale) : TickStale(o)

Spec == Init /\ [][Next]_vars

\* the timeout of a scheduled flip-back elapses: while the callback is due on
\* the registered room object it is eventually run
SpecFair == Spec /\ WF_vars(FlipBackRoom)

\* the same program with clients that choose their display name
NextNamed ==
    \/ \E js \in ShuffleChoices, q \in QueryNames : ConnectionNamed(js, q)
    \/ \E s \in Sockets, js \in ShuffleChoices : Rematch(s, js)
    \/ \E s \in Sockets, idx \in FlipInputs : Flip(s, idx)
    \/ FlipBackRoom
    \/ \E o \in BagToSet(stale) : FlipBackStale(o)
    \/ \E s \in Sockets : AskQuestion(s)
    \/ \E s \in Sockets : AnswerQuestion(s)
    \/ \E s \in Sockets : Disconnect(s)
    \/ TickRoom
    \/ \E o \in BagToSet(stale) : TickStale(o)

SpecNamed == Init /\ [][NextNamed]_vars

\* ---------------------------------------------------------------- shuffle by itself
\* shuffle is called on an array of up to MaxDeck distinct elements with any
\* sequence of draws; no socket event takes place
InitShuffle ==
    /\ rooms = NoRooms
    /\ stale = EmptyBag
    /\ connected = {}
    /\ nextSocket = 1
    /\ gameOverSignals = 0
    /\ crashed = FALSE
    /\ trial \in UNION { { NewTrial(n, js) : js \in Draws(n) } : n \in 1 .. MaxDeck }

\* the call returns
Shuffle ==
    /\ ~trial.done
    /\ trial' = [trial EXCEPT !.out = shuffle(trial.arr, trial.js), !.done = TRUE]
    /\ UNCHANGED <<rooms, stale, connected, nextSocket, gameOverSignals, crashed>>

NextShuffle == Shuffle

SpecShuffle == InitShuffle /\ [][NextShuffle]_vars

\* ================================================================ properties
Room == rooms[ROOM_ID]
Alive == HasRoom /\ ~crashed
\* the registered room of a result
RoomOf(res) == res.rooms[ROOM_ID]
\* a result that left the registry and the detached objects as they were
LeavesStateAlone(res) == res.rooms = rooms /\ res.stale = stale /\ ~res.threw

\* the preconditions of flip as the design lists them, one disjunct per failure
FlipPreconditionFails(r, s, idx) ==
    \/ \A i \in 1 .. Len(r.players) : r.players[i].id # s
    \/ \E i \in 1 .. Len(r.players) : r.players[i].id = s /\ r.currentPlayer # i - 1
    \/ idx < 0
    \/ idx >= DeckSize
    \/ (idx \in CardIdx /\ (r.cards[idx].revealed \/ r.cards[idx].matched))
    \/ r.gameOver
    \/ Len(r.flipped) = 2

C2_FlipNeedsTwoPlayers ==
    Alive => \A s \in connected, idx \in FlipInputs :
                 Len(Room.players) < 2 => LeavesStateAlone(flip(s, idx))

\* the case of C3: a valid flip of s at idx that completes a pair
CompletesPair(s, idx) ==
    /\ ~FlipPreconditionFails(Room, s, idx)
    /\ Len(Room.flipped) = 1
    /\ Room.cards[Room.flipped[1]].pairId = Room.cards[idx].pairId

AskPrompts(es) == { k \in 1 .. Len(es) : es[k].ev = "askQuestion" }

\* C3: right after a valid flip that makes flipped two cards of one pairId, both
\* cards are matched, the acting player's matches is one higher and the other
\* player's unchanged, flipped is empty, the timer is not running, and exactly
\* one ask-question prompt was emitted, to the acting player, carrying that
\* player's questionsLeft.
C3_MatchResolution ==
    Alive => \A s \in connected, idx \in FlipInputs :
        CompletesPair(s, idx) =>
            LET res == flip(s, idx)
                after == RoomOf(res)
                pi == FindIndex(Room.players, s) + 1
            IN  /\ after.cards[Room.flipped[1]].matched
                /\ after.cards[idx].matched
                /\ Len(after.players) = Len(Room.players)
                /\ after.players[pi].matches = Room.players[pi].matches + 1
                /\ \A i \in 1 .. Len(Room.players) :
                       i # pi => after.players[i] = Room.players[i]
                /\ after.flipped = << >>
                /\ ~after.timer.running
                /\ Cardinality(AskPrompts(res.emits)) = 1
                /\ \A k \in AskPrompts(res.emits) :
                       /\ res.emits[k].to = s
                       /\ res.emits[k].val = questionsLeft(after.players[pi])

\* C3 witness: two players, the timer running, one card up, and the player whose
\* turn it is can complete the pair.
C3_Witness ==
    /\ Alive
    /\ Len(Room.players) = 2
    /\ Room.timer.running
    /\ \E s \in connected, idx \in FlipInputs : CompletesPair(s, idx)

\* C4: from the mismatched second flip until the flip-back fires, the two cards
\* stay revealed, flipped holds them and currentPlayer stays the index of the
\* player who flipped; when the flip-back fires both cards are face down,
\* flipped is empty, currentPlayer is 1 - its previous value, and exactly one
\* info entry is put at the head of the log.
C4_MismatchThenFlipBack ==
    (Alive /\ Room.pending # << >>) =>
        LET cb == Head(Room.pending)
            after == RoomOf(flipBackRoom)
        IN  /\ Room.cards[cb.a].revealed /\ Room.cards[cb.b].revealed
            /\ Room.cards[cb.a].pairId # Room.cards[cb.b].pairId
            /\ Room.flipped = << cb.a, cb.b >>
            /\ Room.currentPlayer = cb.playerIndex
            /\ ~after.cards[cb.a].revealed /\ ~after.cards[cb.b].revealed
            /\ after.flipped = << >>
            /\ after.currentPlayer = 1 - Room.currentPlayer
            /\ after.currentPlayer # Room.currentPlayer
            /\ flipBackRoom.logged = << "info" >>

\* C4 witness: a flip-back has fired: the turn is with index 1 (only a flip-back
\* moves it there), nothing is flipped and no flip-back is pending.
C4_Witness ==
    /\ Alive
    /\ Room.currentPlayer = 1
    /\ Room.flipped = << >>
    /\ Room.pending = << >>
    /\ \A i \in CardIdx : ~Room.cards[i].revealed

\* C5: flipped never holds more than two cards, and while a flip-back is
\* pending every flip request, of any sender and index, is rejected.
C5_AtMostTwoFlipped ==
    Alive =>
        /\ Len(Room.flipped) <= 2
        /\ Room.pending # << >> =>
               \A s \in connected, idx \in FlipInputs : LeavesStateAlone(flip(s, idx))

\* C5 witness: a flip-back is pending while the player whose turn it is is
\* connected and a face-down card is left to ask for.
C5_Witness ==
    /\ Alive
    /\ Room.pending # << >>
    /\ \E s \in connected, idx \in CardIdx : FlipGuardNoLimit(Room, s, idx)

\* a step that is a rematch
RematchStep == \E s \in Sockets, js \in ShuffleChoices : Rematch(s, js)

\* C6: within one deck, a card that is matched keeps its matched and revealed
\* flags in every later step (flips of either player, flip-backs, all others).
C6_MatchedIsFinal ==
    [][ (HasRoom /\ HasRoom' /\ ~RematchStep) =>
            \A i \in CardIdx : Room.cards[i].matched => rooms'[ROOM_ID].cards[i] = Room.cards[i] ]_vars

\* C6 witness: a matched pair lies beside a card that was flipped after it.
C6_Witness ==
    /\ Alive
    /\ \E i \in CardIdx : Room.cards[i].matched
    /\ \E i \in CardIdx : Room.cards[i].revealed /\ ~Room.cards[i].matched

\* C7: the deck of the registered room always has DeckSize cards and every
\* pairId of 0 .. NumPairs-1 on exactly two of them.
C7_DeckIsPairs ==
    HasRoom =>
        /\ DOMAIN Room.cards = CardIdx
        /\ \A i \in CardIdx : Room.cards[i].pairId \in 0 .. (NumPairs - 1)
        /\ \A pr \in 0 .. (NumPairs - 1) :
               Cardinality({ i \in CardIdx : Room.cards[i].pairId = pr }) = 2

\* C7 witness: a deck whose shuffle moved cards (the first two cards differ),
\* in a game where a card has since been matched.
C7_Witness ==
    /\ HasRoom
    /\ Room.cards[0].pairId # Room.cards[1].pairId
    /\ \E i \in CardIdx : Room.cards[i].matched

\* C8 (as claimed): questionsLeft of every player is at least 0 in every state.
C8_QuestionsLeftNonNegative ==
    HasRoom => \A i \in 1 .. Len(Room.players) : questionsLeft(Room.players[i]) >= 0

\* C9: after an answerQuestion on a room that is not over the timer is running;
\* after one on a room that is over it is not running.
C9_AnswerResumesUnlessOver ==
    Alive => \A s \in connected :
                 RoomOf(answerQuestion(s)).timer.running = ~Room.gameOver

\* C9 witness: the pause after a match: two players, a match made, the game not
\* over, the timer stopped and a socket there to answer.
C9_Witness ==
    /\ Alive
    /\ Len(Room.players) = 2
    /\ ~Room.gameOver
    /\ ~Room.timer.running
    /\ \E i \in 1 .. 2 : Room.players[i].matches > 0
    /\ connected # {}

TotalMatches == MatchesOrZero(Room.players, 0) + MatchesOrZero(Room.players, 1)

\* C10 (as claimed): in one game the game-over signal is emitted at most once,
\* and it has been emitted once all pairs are found or the time is used up.
C10_GameOverExactlyOnce ==
    HasRoom =>
        /\ gameOverSignals <= 1
        /\ (TotalMatches = AllPairs \/ Room.timer.remaining <= 0) => gameOverSignals = 1

\* ---------------------------------------------------------------- C11
\* every 'gameOver' signal among the emitted signals es names the player of ps
\* with strictly more matches, and is the tie exactly when the matches are equal
NamesWinner(es, ps) ==
    \A k \in DOMAIN es :
        es[k].ev = "gameOver" =>
            /\ ps[1].matches > ps[2].matches => es[k].val = ps[1].name
            /\ ps[2].matches > ps[1].matches => es[k].val = ps[2].name
            /\ es[k].val = TIE_NAME <=> ps[1].matches = ps[2].matches

\* the checks of the game in a two-player room: the flip that completes a pair
\* and the ticks that reach the end of the time
GameOverSignalsNameWinner ==
    (Alive /\ Len(Room.players) = 2) =>
        /\ \A s \in connected : \A idx \in FlipInputs :
               NamesWinner(flip(s, idx).emits, RoomOf(flip(s, idx)).players)
        /\ Room.timer.live > 0 => NamesWinner(tickRoom.emits, Room.players)
        /\ \A o \in BagToSet(stale) : NamesWinner(tickStale(o).emits, Room.players)

\* C11 (as claimed): whenever the game-over signal is emitted for a two-player
\* room it carries the display name of the player with strictly more matches,
\* and it carries the tie indicator if and only if the matches are equal, in
\* the all-pairs-found case and in the time-expired case.
C11_WinnerOrTie == GameOverSignalsNameWinner

\* the signal of a game that ends with all pairs found by one player
C11_AllPairsCase ==
    /\ Alive
    /\ Len(Room.players) = 2
    /\ \E s \in connected : \E idx \in FlipInputs :
          /\ CountGameOver(flip(s, idx).emits) = 1
          /\ RoomOf(flip(s, idx)).players[1].matches = AllPairs

\* the signal of a game that ends at the end of the time
C11_TimeUpCase ==
    /\ Alive
    /\ Len(Room.players) = 2
    /\ Room.timer.live > 0
    /\ CountGameOver(tickRoom.emits) = 1
    /\ Room.players[1].matches # Room.players[2].matches

\* ---------------------------------------------------------------- C12
\* C12: in every reachable state of a room, gameOver = TRUE implies that the
\* timer is not running; no join, answer or other event that arrives after
\* the game is over starts or resumes the timer of that game.
C12_GameOverStopsTimer == HasRoom => (Room.gameOver => ~Room.timer.running)

\* a game that ended because a player left, with a second player who joined
\* after it was over: the join did not start the timer
C12_Witness ==
    /\ Alive
    /\ Room.gameOver
    /\ Len(Room.players) = 2
    /\ TotalMatches < AllPairs
    /\ Room.timer.remaining > 0
    /\ ~Room.timer.running

\* ---------------------------------------------------------------- C13
\* a deck of unrevealed, unmatched cards with every pairId on exactly two cards
FreshDeck(cards) ==
    /\ DOMAIN cards = CardIdx
    /\ \A i \in CardIdx : ~cards[i].revealed /\ ~cards[i].matched
    /\ \A pr \in 0 .. (NumPairs - 1) :
           Cardinality({ i \in CardIdx : cards[i].pairId = pr }) = 2

\* the room n is a new game of the players of the room old
FreshGameOf(n, old) ==
    /\ FreshDeck(n.cards)
    /\ n.flipped = << >>
    /\ n.currentPlayer = 0
    /\ ~n.gameOver
    /\ Len(n.players) = 2
    /\ \A i \in 1 .. 2 :
           /\ n.players[i].id = old.players[i].id
           /\ n.players[i].name = old.players[i].name
           /\ n.players[i].matches = 0
           /\ n.players[i].asked = 0
           /\ n.players[i].extra = 0
    /\ n.timer.running
    /\ n.timer.remaining = FullTime

\* C13: a rematch requested by any connected socket while exactly two players
\* are present, from any reachable state, yields a room with a fresh deck of
\* unrevealed unmatched cards, no flipped cards, currentPlayer 0, gameOver
\* FALSE, both players' matches, asked and extra equal to 0, the same ids and
\* names in the same order, and the timer running at the full duration.
C13_RematchGivesFreshGame ==
    (Alive /\ Len(Room.players) = 2) =>
        \A s \in connected : \A js \in ShuffleChoices :
            /\ ~rematch(s, js).threw
            /\ rematch(s, js).rooms # NoRooms
            /\ FreshGameOf(RoomOf(rematch(s, js)), Room)

\* a rematch from a game that is over, where the second player had the turn,
\* a pair was found and a question was asked
C13_Witness ==
    /\ Alive
    /\ Len(Room.players) = 2
    /\ Room.gameOver
    /\ Room.currentPlayer = 1
    /\ \E i \in 1 .. 2 : Room.players[i].matches > 0
    /\ \E i \in 1 .. 2 : Room.players[i].asked > 0
    /\ \E cd \in CardIdx : Room.cards[cd].matched
    /\ \E s \in connected : \E js \in ShuffleChoices :
           /\ RoomOf(rematch(s, js)) # Room
           /\ FreshGameOf(RoomOf(rematch(s, js)), Room)

\* a rematch while a flip-back is still scheduled on the replaced game
C13_WitnessDelay ==
    /\ Alive
    /\ Len(Room.players) = 2
    /\ Room.pending # << >>
    /\ \E s \in connected : \E js \in ShuffleChoices :
           FreshGameOf(RoomOf(rematch(s, js)), Room)

\* ---------------------------------------------------------------- C14
RECURSIVE SumLive(_, _)
\* the interval tasks of the objects in the set os, counted with the copies in bag
SumLive(bag, os) ==
    IF os = {} THEN 0
    ELSE LET o == CHOOSE x \in os : TRUE
         IN  CopiesIn(o, bag) * o.timer.live + SumLive(bag, os \ {o})

\* the live interval tasks that close over detached room objects
StaleLive(bag) == SumLive(bag, BagToSet(bag))

IsPlayer(s) == HasRoom /\ FindIndex(Room.players, s) # 0 - 1

\* C14: when a player disconnects, the player is removed from the room; if one
\* player remains the room has gameOver = TRUE and its timer is not running;
\* if no player remains the room is removed from the registry with no tick
\* task of it left alive, and the next connection gets a newly created room.
C14_DisconnectRemovesPlayer ==
    /\ Alive =>
         \A s \in connected :
            IsPlayer(s) =>
               /\ ~disconnect(s).threw
               /\ IF Len(Room.players) = 1
                  THEN /\ disconnect(s).rooms = NoRooms
                       /\ StaleLive(disconnect(s).stale) = StaleLive(stale)
                  ELSE /\ disconnect(s).rooms # NoRooms
                       /\ RoomOf(disconnect(s)).players
                             = Splice(Room.players, FindIndex(Room.players, s))
                       /\ FindIndex(RoomOf(disconnect(s)).players, s) = 0 - 1
                       /\ Len(RoomOf(disconnect(s)).players) = 1
                       /\ RoomOf(disconnect(s)).gameOver
                       /\ ~RoomOf(disconnect(s)).timer.running
                       /\ RoomOf(disconnect(s)).timer.live = 0
    /\ (~crashed /\ ~HasRoom /\ nextSocket <= NumSockets) =>
         \A js \in ShuffleChoices :
            /\ connection(nextSocket, js).fresh
            /\ RoomOf(connection(nextSocket, js))
                  = [createNewGameState(js) EXCEPT !.players = << NewPlayer(nextSocket) >>]

\* the last player of a room whose timer had been started leaves: the room is
\* removed and none of its tick tasks is left
C14_Witness ==
    /\ Alive
    /\ Len(Room.players) = 1
    /\ Room.timer.intervalId # "null"
    /\ \E s \in connected :
          /\ IsPlayer(s)
          /\ disconnect(s).rooms = NoRooms
          /\ StaleLive(disconnect(s).stale) = StaleLive(stale)

\* one of two players leaves while the timer runs: the game is over and the
\* timer is stopped
C14_WitnessOneLeft ==
    /\ Alive
    /\ Len(Room.players) = 2
    /\ Room.timer.running
    /\ ~Room.gameOver
    /\ \E s \in connected :
          /\ IsPlayer(s)
          /\ RoomOf(disconnect(s)).gameOver
          /\ ~RoomOf(disconnect(s)).timer.running

\* after a teardown, with a socket still to connect
C14_WitnessTornDown == ~crashed /\ ~HasRoom /\ nextSocket > 1 /\ nextSocket <= NumSockets

\* ---------------------------------------------------------------- C15
\* C15 (as claimed): no event handler and no timer or flip-back callback
\* raises an exception in any reachable state; every connect, flip,
\* askQuestion, answerQuestion, rematch, disconnect and tick ends as an
\* applied action, a rejection or a no-op.
C15_NoHandlerThrows == ~crashed

\* ---------------------------------------------------------------- C16
\* C16 (as claimed): in every reachable state the timer of a room is running
\* only if exactly two players are present in that room.
C16_RunningNeedsTwoPlayers == HasRoom => (Room.timer.running => Len(Room.players) = 2)

\* ---------------------------------------------------------------- C17
\* the live interval tasks that emit to the room id: those of the registered
\* room object and those of the detached ones
LiveTasks == (IF HasRoom THEN Room.timer.live ELSE 0) + StaleLive(stale)

\* C17 (as claimed): in every reachable state the number of live periodic tick
\* tasks for the room id is 1 when the room's timer is running and 0
\* otherwise; no tick task of a replaced or discarded game is left alive.
C17_OneTickTaskIffRunning ==
    LiveTasks = (IF HasRoom /\ Room.timer.running THEN 1 ELSE 0)

\* ---------------------------------------------------------------- C18
\* the socket whose mismatched second flip scheduled the next flip-back is no
\* longer a player of the room
FlipperLeft == Room.pending # << >> /\ ~IsPlayer(Head(Room.pending).socket)

\* C18 (as claimed): when the player who made the mismatched second flip has
\* disconnected before the flip-back fires, the flip-back changes neither
\* currentPlayer nor the card flags nor the event log.
C18_FlipBackSkipsDepartedPlayer ==
    (Alive /\ FlipperLeft) =>
        /\ RoomOf(flipBackRoom).currentPlayer = Room.currentPlayer
        /\ RoomOf(flipBackRoom).cards = Room.cards
        /\ RoomOf(flipBackRoom).flipped = Room.flipped
        /\ flipBackRoom.logged = << >>

\* ---------------------------------------------------------------- C19
\* C19 (as claimed): in every reachable state of a room, currentPlayer is a
\* valid index of the players present: 0 <= currentPlayer < Len(players).
C19_CurrentPlayerInRange ==
    HasRoom => (0 <= Room.currentPlayer /\ Room.currentPlayer < Len(Room.players))

\* ---------------------------------------------------------------- C20
\* The timer of a two-player game that is not over is stopped: once the second
\* player has joined, only the pauseTimer of a match leaves the timer stopped
\* without ending the game (a disconnect and the time-up both end it), and
\* only answerQuestion or a rematch is meant to end the pause.
QAPause ==
    /\ Len(Room.players) = 2
    /\ ~Room.gameOver
    /\ ~Room.timer.running
    /\ TotalMatches > 0

\* the timer of the registered room after a handler with result res
RunsAfter(res) == res.rooms # NoRooms /\ RoomOf(res).timer.running

\* C20 (as claimed): after a match has paused the timer it stays not running
\* until an answerQuestion is processed or a rematch starts a new game; no new
\* connection, flip or askQuestion in between restarts it.
C20_PausedUntilAnswer ==
    (Alive /\ QAPause) =>
        /\ \A js \in ShuffleChoices :
               nextSocket <= NumSockets => ~RunsAfter(connection(nextSocket, js))
        /\ \A s \in connected : \A idx \in FlipInputs : ~RunsAfter(flip(s, idx))
        /\ \A s \in connected : ~RunsAfter(askQuestion(s))

\* ---------------------------------------------------------------- C21
\* the signals named ev among the emitted signals es
HasSignal(es, ev) == \E k \in DOMAIN es : es[k].ev = ev

\* C21 (as claimed): an answerQuestion sent by a connected socket that is not
\* a player of the room is a no-op: it appends no answer entry to the log,
\* emits no questionAnswered signal, and does not start or resume the timer.
C21_AnswerOfNonPlayerIsNoOp ==
    Alive =>
        \A s \in connected :
            ~IsPlayer(s) =>
                /\ answerQuestion(s).logged = << >>
                /\ ~HasSignal(answerQuestion(s).emits, "questionAnswered")
                /\ RoomOf(answerQuestion(s)).timer = Room.timer

\* ---------------------------------------------------------------- C22
\* the ids of the players are pairwise distinct
DistinctIds(players) ==
    \A i, k \in 1 .. Len(players) : players[i].id = players[k].id => i = k

\* C22: in every reachable state a room has at most two players with pairwise
\* distinct ids; a connection that arrives while two players are present, or
\* with the id of a socket that is already a player, adds no player and
\* changes no player's counters.
C22_AtMostTwoDistinctPlayers ==
    /\ HasRoom => (Len(Room.players) <= 2 /\ DistinctIds(Room.players))
    /\ Alive =>
         \A js \in ShuffleChoices : \A q \in QueryNames :
            /\ (Len(Room.players) = 2 /\ nextSocket <= NumSockets) =>
                   RoomOf(connectionNamed(nextSocket, js, q)).players = Room.players
            /\ \A s \in connected :
                   IsPlayer(s) => RoomOf(connectionNamed(s, js, q)).players = Room.players

\* a third socket is about to connect to a room of two players, one of whom
\* has found a pair and asked a question
C22_Witness ==
    /\ Alive
    /\ Len(Room.players) = 2
    /\ nextSocket <= NumSockets
    /\ \E i \in 1 .. 2 : Room.players[i].matches > 0 /\ Room.players[i].asked > 0
    /\ \A js \in ShuffleChoices :
           RoomOf(connection(nextSocket, js)).players = Room.players

\* the third socket has connected and is not a player
C22_WitnessSpectator ==
    /\ Alive
    /\ Len(Room.players) = 2
    /\ \E s \in connected : ~IsPlayer(s)

\* ---------------------------------------------------------------- C23
RECURSIVE Factorial(_)
Factorial(n) == IF n <= 1 THEN 1 ELSE n * Factorial(n - 1)

\* out holds every position 0 .. n - 1 exactly once
IsPermutation(out, n) ==
    /\ DOMAIN out = 0 .. (n - 1)
    /\ { out[k] : k \in 0 .. (n - 1) } = 0 .. (n - 1)

\* the arrays shuffle returns for the n positions over all sequences of draws
ShuffleResults(n) == { shuffle(Positions(n), js) : js \in Draws(n) }

\* C23: with j drawn from 0 .. i for i from the last index down to 1, shuffle
\* returns a permutation of its input, no two sequences of draws return the
\* same permutation, and the number of sequences of draws equals the number of
\* permutations, n!, so that every permutation is returned by exactly one
\* sequence of draws (equally likely draws give equally likely permutations);
\* for every array length up to MaxDeck.
C23_ShuffleIsBijection ==
    trial.done =>
        LET n == Cardinality(DOMAIN trial.arr)
        IN  /\ IsPermutation(trial.out, n)
            /\ \A js \in Draws(n) :
                   shuffle(trial.arr, js) = trial.out => js = trial.js
            /\ Cardinality(Draws(n)) = Factorial(n)
            /\ Cardinality(ShuffleResults(n)) = Factorial(n)
            /\ \A out \in ShuffleResults(n) : IsPermutation(out, n)

\* a shuffle of the longest array that returned the reversed array
C23_Witness ==
    /\ trial.done
    /\ Cardinality(DOMAIN trial.arr) = MaxDeck
    /\ \A k \in 0 .. (MaxDeck - 1) : trial.out[k] = MaxDeck - 1 - k

\* ---------------------------------------------------------------- C24
\* the indices held by flipped
FlippedSet(r) == { r.flipped[k] : k \in DOMAIN r.flipped }

\* the cards that are face up and not matched
OpenCards(r) == { i \in CardIdx : r.cards[i].revealed /\ ~r.cards[i].matched }

C24_WitnessMismatch ==
    /\ Alive
    /\ Len(Room.flipped) = 2
    /\ FlipperLeft
    /\ OpenCards(Room) = FlippedSet(Room)

TwoMismatched ==
    /\ HasRoom
    /\ Len(Room.flipped) = 2
    /\ Room.cards[Room.flipped[1]].pairId # Room.cards[Room.flipped[2]].pairId

\* flipped of the registered room is empty, or there is no room
FlippedCleared == ~HasRoom \/ Room.flipped = << >>

\* C26 (as claimed): with the flip-back run once it is due, every state in
\* which flipped holds two mismatched cards is eventually followed by a state
\* in which flipped of the registered room is empty or the room no longer
\* exists, whatever events arrive during the delay.
C26_MismatchEventuallyCleared == TwoMismatched ~> FlippedCleared

\* the same with the end of the process after a throw counted as an outcome
C26_ClearedUnlessCrashed == TwoMismatched ~> (FlippedCleared \/ crashed)

====
